---- MODULE Spec2Model ----
(***************************************************************************)
(* FogNetOptimizer: the fog node's window buffer and window processing     *)
(* threads (fog_node.py), the cloud node's connection handlers             *)
(* (cloud_node.py), and the pure kernels (XOR coder, two-dimensional       *)
(* knapsack).                                                              *)
(*                                                                         *)
(* Numbers: entropies are fixed-point integers in millibits (1 bit =       *)
(* 1000); a forecast is kept in tenths of a millibit so that the weights   *)
(* 0.5/0.3/0.2/0.9 stay integers.  Thresholds are whole bits, so integer   *)
(* division by W before a comparison with a threshold decides the same way *)
(* as the floating-point mean.                                             *)
(***************************************************************************)
EXTENDS Integers, Sequences, FiniteSets, TLC

\* ------------------------------------------------------------- fog: sizes
WindowSize == 2       \* window_size of the FogNode (W)
MaxPackets == 5       \* non-empty packets delivered to data_callback in one behaviour

IngestThreads == {"i1", "i2"}

\* A packet of n bytes holding the byte values 0..n-1 once each.
Run(n) == [i \in 1..n |-> i - 1]

\* The packets a producer sends: empty, 4 distinct bytes, 64 distinct bytes.
PacketAlphabet == {<< >>, Run(4), Run(64)}

VARIABLES
    sliding_window,   \* FogNode.sliding_window: packets, each tagged with its arrival number
    lock,             \* FogNode.lock: "free" or the ingest thread holding it
    ipc,              \* ingest thread -> "idle" | "locked" | "appended"
    idata,            \* ingest thread -> the data argument of its data_callback call
    accepted,         \* every packet appended so far, in append order
    detached,         \* every window_copy made so far, in detach order
    proc,             \* the processing threads, in start order
    entropy_history,  \* FogNode.entropy_history
    coding_scheme,    \* FogNode.coding_scheme
    coding_degree,    \* FogNode.coding_degree
    sent              \* the ControlMetadata handed to send_tcp_message, each with its window number

VARIABLES
    performance_records, \* cloud_node.performance_records
    hpc,              \* handler -> position in handle_connection
    hdata,            \* handler -> data, the frame it received
    hencoded,         \* handler -> encoded_data (parts[0])
    hinfo_str,        \* handler -> info_str (parts[1].decode())
    hinfo,            \* handler -> info, the parsed metadata
    hidx,             \* handler -> length of performance_records right after its append
    hstep,            \* handler -> the sum of compute_performance_metrics it is at (1..7)
    hsums,            \* handler -> the sums computed so far
    hmetrics,         \* handler -> metrics
    hreply,           \* handler -> bytes sent back on the connection
    log,              \* the lines of performance_metrics.log
    write_failed      \* some write to performance_metrics.log has failed

hparts == << hdata, hencoded, hinfo_str >>

cloudVars == << performance_records, hpc, hparts, hinfo, hidx, hstep, hsums, hmetrics, hreply,
                log, write_failed >>

VARIABLES
    items,            \* multi_dim_knapsack: the (value, weight1, weight2) items
    capacity1,        \* multi_dim_knapsack: capacity1
    capacity2,        \* multi_dim_knapsack: capacity2
    selected,         \* multi_dim_knapsack: the returned index list
    kdone             \* multi_dim_knapsack has returned

knapVars == << items, capacity1, capacity2, selected, kdone >>

VARIABLES
    cpackets,         \* perform_network_coding: packets
    cdt,              \* perform_network_coding: dt
    encoded_groups,   \* perform_network_coding: encoded_groups
    result,           \* perform_network_coding: the returned byte string
    cdone             \* perform_network_coding has returned

codeVars == << cpackets, cdt, encoded_groups, result, cdone >>

VARIABLES
    sel_entropy,      \* decide_coding_parameters: the entropy argument
    decided           \* decide_coding_parameters has returned

selVars == << sel_entropy, decided >>

VARIABLES
    client_pc,        \* handle_client: position of the connection's thread
    buffer,           \* handle_client: the bytearray `buffer`
    reads,            \* the non-empty chunks recv has returned, in order
    callbacks,        \* the arguments of the callback calls, in order
    acks              \* per acknowledgment sent: the number of calls returned

clientVars == << client_pc, buffer, reads, callbacks, acks >>

fogVars == << sliding_window, lock, ipc, idata, accepted, detached,
              proc, entropy_history, coding_scheme, coding_degree, sent >>

vars == << fogVars, cloudVars, knapVars, codeVars, selVars, clientVars >>

offFog == << cloudVars, knapVars, codeVars, selVars, clientVars >>
offCloud == << fogVars, knapVars, codeVars, selVars, clientVars >>
offKnap == << fogVars, cloudVars, codeVars, selVars, clientVars >>
offCode == << fogVars, cloudVars, knapVars, selVars, clientVars >>
offClient == << fogVars, cloudVars, knapVars, codeVars, selVars >>

\* ------------------------------------------------------------ fog kernels

RECURSIVE SumSeq(_)
SumSeq(s) == IF s = << >> THEN 0 ELSE Head(s) + SumSeq(Tail(s))

RECURSIVE Log2(_)
Log2(n) == IF n <= 1 THEN 0 ELSE 1 + Log2(n \div 2)

IsPow2(n) == n >= 1 /\ \E k \in 0..8 : n = 2 ^ k

\* np.histogram(data_array, bins=256, range=(0, 256)): the byte values that
\* occur, and the occurrences of one byte value.
Occupied(packet) == {packet[i] : i \in DOMAIN packet}

Count(packet, b) == Cardinality({i \in DOMAIN packet : packet[i] = b})

\* -sum(p * log2(p)) over the non-zero bins of the density histogram, in
\* millibits.  Evaluated exactly where every occupied bin has the same count
\* and their number is a power of two (the packets of PacketAlphabet); there
\* the entropy is log2 of the number of occupied bins.
PacketEntropy(packet) ==
    LET n == Cardinality(Occupied(packet))
    IN  CASE /\ n > 0
             /\ IsPow2(n)
             /\ \A b \in Occupied(packet) : Count(packet, b) * n = Len(packet)
             -> 1000 * Log2(n)

\* The entropies of the packets a producer sends, computed once.
EntropyTable == [p \in PacketAlphabet \ {<< >>} |-> PacketEntropy(p)]

\* np.mean(packet_entropies), in millibits.
WindowEntropy(packets) ==
    SumSeq([i \in DOMAIN packets |-> EntropyTable[packets[i].data]]) \div Len(packets)

H_low == 4000
H_med == 6000

DecideScheme(entropy) ==
    IF entropy < H_low THEN "Simple"
    ELSE IF entropy < H_med THEN "Fountain"
    ELSE "RLNC"

\* The boundary H_low taken into the Simple region.
DecideDegreeLowInclusive(H) ==
    IF H <= H_low THEN 2
    ELSE IF H < H_med THEN 4
    ELSE 6

DecideDegree(entropy) ==
    IF entropy < H_low THEN 2
    ELSE IF entropy < H_med THEN 4
    ELSE 6

\* ------------------------------------------- decide_coding_parameters alone

MaxEntropy == 8000    \* largest entropy passed to the selector, in millibits (8 bits)

\* The values self.coding_scheme / self.coding_degree hold before a call: the
\* constructor's or those of an earlier call.
PriorParameters == { <<"None", 0>>, <<"Simple", 2>>, <<"Fountain", 4>>, <<"RLNC", 6>> }

SelIdle ==
    /\ sel_entropy = 0
    /\ decided = FALSE

\* A call decide_coding_parameters(entropy) on a node whose fields hold the
\* result of some earlier call.
SelInput ==
    /\ sel_entropy \in 0..MaxEntropy
    /\ \E prior \in PriorParameters :
          /\ coding_scheme = prior[1]
          /\ coding_degree = prior[2]
    /\ decided = FALSE
    /\ sliding_window = << >>
    /\ lock = "free"
    /\ ipc = [t \in IngestThreads |-> "idle"]
    /\ idata = [t \in IngestThreads |-> << >>]
    /\ accepted = << >>
    /\ detached = << >>
    /\ proc = << >>
    /\ entropy_history = << >>
    /\ sent = {}

\* decide_coding_parameters(entropy), run to completion.
DecideCodingParameters ==
    /\ ~decided
    /\ coding_scheme' = DecideScheme(sel_entropy)
    /\ coding_degree' = DecideDegree(sel_entropy)
    /\ decided' = TRUE
    /\ UNCHANGED << sel_entropy, sliding_window, lock, ipc, idata, accepted, detached,
                    proc, entropy_history, sent, cloudVars, knapVars, codeVars,
                    clientVars >>

MaxReads == 3

ChunkAlphabet == { <<1>>, <<2>>, <<1, 2>> }

\* handle_client has set the timeout and created the empty buffer.
ClientInit ==
    /\ client_pc = "recv"
    /\ buffer = << >>
    /\ reads = << >>
    /\ callbacks = << >>
    /\ acks = << >>

\* recv returns a non-empty chunk, which is appended to the buffer.
ClientRecv ==
    /\ client_pc = "recv"
    /\ Len(reads) < MaxReads
    /\ \E chunk \in ChunkAlphabet :
          /\ buffer' = buffer \o chunk
          /\ reads' = Append(reads, chunk)
    /\ client_pc' = IF Len(buffer') > 0 THEN "callback" ELSE "recv"
    /\ UNCHANGED << callbacks, acks, offClient >>

\* recv returns b"": the client has closed the connection.
ClientRecvClosed ==
    /\ client_pc = "recv"
    /\ client_pc' = "closing"
    /\ UNCHANGED << buffer, reads, callbacks, acks, offClient >>

\* `except socket.timeout`: a non-empty buffer goes to the callback, then break.
TimeoutHandler ==
    /\ callbacks' = IF Len(buffer) > 0 THEN Append(callbacks, buffer) ELSE callbacks
    /\ buffer' = << >>
    /\ client_pc' = "closing"

\* `except Exception`: break.
ErrorHandler ==
    /\ client_pc' = "closing"
    /\ UNCHANGED << buffer, callbacks >>

\* recv raises socket.timeout after ten idle seconds.
ClientRecvTimeout ==
    /\ client_pc = "recv"
    /\ TimeoutHandler
    /\ UNCHANGED << reads, acks, offClient >>

\* recv raises another exception.
ClientRecvError ==
    /\ client_pc = "recv"
    /\ ErrorHandler
    /\ UNCHANGED << reads, acks, offClient >>

\* callback(bytes(buffer), addr)
ClientCallback ==
    /\ client_pc = "callback"
    /\ callbacks' = Append(callbacks, buffer)
    /\ client_pc' = "ack"
    /\ UNCHANGED << buffer, reads, acks, offClient >>

\* sendall(response) returns.
ClientAck ==
    /\ client_pc = "ack"
    /\ acks' = Append(acks, Len(callbacks))
    /\ client_pc' = "clear"
    /\ UNCHANGED << buffer, reads, callbacks, offClient >>

\* sendall raises socket.timeout: the peer has not drained its receive
\* buffer for ten seconds.
ClientAckTimeout ==
    /\ client_pc = "ack"
    /\ TimeoutHandler
    /\ UNCHANGED << reads, acks, offClient >>

\* sendall raises another exception.
ClientAckError ==
    /\ client_pc = "ack"
    /\ ErrorHandler
    /\ UNCHANGED << reads, acks, offClient >>

\* buffer.clear()
ClientClear ==
    /\ client_pc = "clear"
    /\ buffer' = << >>
    /\ client_pc' = "recv"
    /\ UNCHANGED << reads, callbacks, acks, offClient >>

\* finally: client_socket.close()
ClientClose ==
    /\ client_pc = "closing"
    /\ client_pc' = "closed"
    /\ UNCHANGED << buffer, reads, callbacks, acks, offClient >>

HandleClient ==
    \/ ClientRecv
    \/ ClientRecvClosed
    \/ ClientRecvTimeout
    \/ ClientRecvError
    \/ ClientCallback
    \/ ClientAck
    \/ ClientAckTimeout
    \/ ClientAckError
    \/ ClientClear
    \/ ClientClose

\* C25: every chunk read goes to the callback exactly once and unchanged:
\* the calls made are the chunks read, in order, with at most the latest
\* chunk still waiting for its call and none waiting once the connection is
\* closed; each acknowledgment follows the return of the call for its chunk.
C25_OneCallbackPerRead ==
    /\ Len(callbacks) \in {Len(reads) - 1, Len(reads)}
    /\ \A i \in DOMAIN callbacks : callbacks[i] = reads[i]
    /\ client_pc = "closed" => Len(callbacks) = Len(reads)
    /\ Len(acks) <= Len(callbacks)
    /\ \A i \in DOMAIN acks : acks[i] = i

\* ------------------------------------------------------------- fog: ingest

NewProc(window_copy) ==
    [ packets |-> window_copy, pc |-> "start",
      current_entropy |-> 0, predicted_entropy |-> 0, ar |-> 0,
      dt |-> 0, info_scheme |-> "None", info_degree |-> 0, response |-> 0,
      io |-> << >> ]

FogInit ==
    /\ sliding_window = << >>
    /\ lock = "free"
    /\ ipc = [t \in IngestThreads |-> "idle"]
    /\ idata = [t \in IngestThreads |-> << >>]
    /\ accepted = << >>
    /\ detached = << >>
    /\ proc = << >>
    /\ entropy_history = << >>
    /\ coding_scheme = "None"
    /\ coding_degree = 0
    /\ sent = {}

ingestUnchanged == << proc, entropy_history, coding_scheme, coding_degree, sent, offFog >>

\* data_callback(data, addr) is called and enters `with self.lock`.
AcquireLock(t, data) ==
    /\ ipc[t] = "idle"
    /\ lock = "free"
    /\ data # << >> => Len(accepted) < MaxPackets
    /\ lock' = t
    /\ ipc' = [ipc EXCEPT ![t] = "locked"]
    /\ idata' = [idata EXCEPT ![t] = data]
    /\ UNCHANGED << sliding_window, accepted, detached, ingestUnchanged >>

\* A return that leaves the lock held.
IgnoreEmptyKeepsLock(t) ==
    /\ ipc[t] = "locked"
    /\ idata[t] = << >>
    /\ ipc' = [ipc EXCEPT ![t] = "idle"]
    /\ UNCHANGED << lock, sliding_window, idata, accepted, detached, ingestUnchanged >>

\* `if not data or len(data) == 0: return` (the with-block releases the lock).
IgnoreEmpty(t) ==
    /\ ipc[t] = "locked"
    /\ idata[t] = << >>
    /\ lock' = "free"
    /\ ipc' = [ipc EXCEPT ![t] = "idle"]
    /\ UNCHANGED << sliding_window, idata, accepted, detached, ingestUnchanged >>

\* An append that waits until no processing thread is running.
AppendPacketAfterProcessing(t) ==
    /\ ipc[t] = "locked"
    /\ idata[t] # << >>
    /\ \A w \in DOMAIN proc : proc[w].pc = "done"
    /\ LET pkt == [id |-> Len(accepted) + 1, data |-> idata[t]]
       IN  /\ sliding_window' = Append(sliding_window, pkt)
           /\ accepted' = Append(accepted, pkt)
    /\ ipc' = [ipc EXCEPT ![t] = "appended"]
    /\ UNCHANGED << lock, idata, detached, ingestUnchanged >>

\* self.sliding_window.append(data)
AppendPacket(t) ==
    /\ ipc[t] = "locked"
    /\ idata[t] # << >>
    /\ LET pkt == [id |-> Len(accepted) + 1, data |-> idata[t]]
       IN  /\ sliding_window' = Append(sliding_window, pkt)
           /\ accepted' = Append(accepted, pkt)
    /\ ipc' = [ipc EXCEPT ![t] = "appended"]
    /\ UNCHANGED << lock, idata, detached, ingestUnchanged >>

\* `if len(self.sliding_window) >= self.window_size`
WindowFullLate == Len(sliding_window) > WindowSize

WindowFullEager == Len(sliding_window) >= WindowSize - 1

WindowFull == Len(sliding_window) >= WindowSize

\* The window is full: copy it, empty the buffer, start the processing thread.
DetachWindowKeepBuffer(t) ==
    /\ ipc[t] = "appended"
    /\ WindowFull
    /\ detached' = Append(detached, sliding_window)
    /\ proc' = Append(proc, NewProc(sliding_window))
    /\ lock' = "free"
    /\ ipc' = [ipc EXCEPT ![t] = "idle"]
    /\ idata' = [idata EXCEPT ![t] = << >>]
    /\ UNCHANGED << sliding_window, accepted, entropy_history, coding_scheme,
                    coding_degree, sent, offFog >>

DetachWindow(t) ==
    /\ ipc[t] = "appended"
    /\ WindowFull
    /\ LET window_copy == sliding_window
       IN  /\ detached' = Append(detached, window_copy)
           /\ proc' = Append(proc, NewProc(window_copy))
    /\ sliding_window' = << >>
    /\ lock' = "free"
    /\ ipc' = [ipc EXCEPT ![t] = "idle"]
    /\ idata' = [idata EXCEPT ![t] = << >>]
    /\ UNCHANGED << accepted, entropy_history, coding_scheme, coding_degree, sent, offFog >>

\* The window is not full: data_callback returns, releasing the lock.
ReturnNotFull(t) ==
    /\ ipc[t] = "appended"
    /\ ~WindowFull
    /\ lock' = "free"
    /\ ipc' = [ipc EXCEPT ![t] = "idle"]
    /\ idata' = [idata EXCEPT ![t] = << >>]
    /\ UNCHANGED << sliding_window, accepted, detached, ingestUnchanged >>

\* --------------------------------------------- fog: process_sliding_window

procUnchanged == << sliding_window, lock, ipc, idata, accepted, detached, offFog >>

Last(h, k) == h[Len(h) - k + 1]     \* h[-k]

\* current_entropy = np.mean(packet_entropies); self.entropy_history.append(current_entropy)
ProcAppendHistory(w) ==
    /\ proc[w].pc = "start"
    /\ LET current_entropy == WindowEntropy(proc[w].packets)
       IN  /\ entropy_history' = Append(entropy_history, current_entropy)
           /\ proc' = [proc EXCEPT ![w].current_entropy = current_entropy,
                                   ![w].pc = "predict"]
    /\ UNCHANGED << procUnchanged, coding_scheme, coding_degree, sent >>

\* `if len(self.entropy_history) >= 3`; the else branch is the AR(1) forecast
\* ar_a * current_entropy + ar_b, computed from the thread's own value.
ProcCheckLen(w) ==
    /\ proc[w].pc = "predict"
    /\ IF Len(entropy_history) >= 3
       THEN proc' = [proc EXCEPT ![w].ar = 3, ![w].pc = "ar3_1"]
       ELSE proc' = [proc EXCEPT ![w].ar = 1,
                                 ![w].predicted_entropy = 9 * proc[w].current_entropy + 1000,
                                 ![w].pc = "decide"]
    /\ UNCHANGED << procUnchanged, entropy_history, coding_scheme, coding_degree, sent >>

\* The AR(3) forecast reads entropy_history[-1], [-2], [-3] one after the other.
ProcReadH1(w) ==
    /\ proc[w].pc = "ar3_1"
    /\ proc' = [proc EXCEPT ![w].predicted_entropy = 5 * Last(entropy_history, 1),
                            ![w].pc = "ar3_2"]
    /\ UNCHANGED << procUnchanged, entropy_history, coding_scheme, coding_degree, sent >>

ProcReadH2(w) ==
    /\ proc[w].pc = "ar3_2"
    /\ proc' = [proc EXCEPT ![w].predicted_entropy = @ + 3 * Last(entropy_history, 2),
                            ![w].pc = "ar3_3"]
    /\ UNCHANGED << procUnchanged, entropy_history, coding_scheme, coding_degree, sent >>

ProcReadH3(w) ==
    /\ proc[w].pc = "ar3_3"
    /\ proc' = [proc EXCEPT ![w].predicted_entropy = @ + 2 * Last(entropy_history, 3) + 1000,
                            ![w].pc = "decide"]
    /\ UNCHANGED << procUnchanged, entropy_history, coding_scheme, coding_degree, sent >>

\* decide_coding_parameters(current_entropy): self.coding_scheme = ...
ProcDecideScheme(w) ==
    /\ proc[w].pc = "decide"
    /\ coding_scheme' = DecideScheme(proc[w].current_entropy)
    /\ proc' = [proc EXCEPT ![w].pc = "decide2"]
    /\ UNCHANGED << procUnchanged, entropy_history, coding_degree, sent >>

\* decide_coding_parameters(current_entropy): self.coding_degree = ...
ProcDecideDegree(w) ==
    /\ proc[w].pc = "decide2"
    /\ coding_degree' = DecideDegree(proc[w].current_entropy)
    /\ proc' = [proc EXCEPT ![w].pc = "encode"]
    /\ UNCHANGED << procUnchanged, entropy_history, coding_scheme, sent >>

\* self.perform_network_coding(packets, self.coding_degree): the degree read
\* from the shared field is the one the coder is called with (the coder itself
\* is EncodedGroups below; it changes no shared state).
ProcEncode(w) ==
    /\ proc[w].pc = "encode"
    /\ proc' = [proc EXCEPT ![w].dt = coding_degree, ![w].pc = "info1"]
    /\ UNCHANGED << procUnchanged, entropy_history, coding_scheme, coding_degree, sent >>

\* info = {..., "coding_scheme": self.coding_scheme, ...}
ProcReadScheme(w) ==
    /\ proc[w].pc = "info1"
    /\ proc' = [proc EXCEPT ![w].info_scheme = coding_scheme, ![w].pc = "info2"]
    /\ UNCHANGED << procUnchanged, entropy_history, coding_scheme, coding_degree, sent >>

\* info = {..., "coding_degree": self.coding_degree, ...}
ProcReadDegree(w) ==
    /\ proc[w].pc = "info2"
    /\ proc' = [proc EXCEPT ![w].info_degree = coding_degree, ![w].pc = "send"]
    /\ UNCHANGED << procUnchanged, entropy_history, coding_scheme, coding_degree, sent >>

\* The ControlMetadata of the window (the keys the fog fills from shared state).
Info(p) ==
    [ current_entropy |-> p.current_entropy,
      predicted_entropy |-> p.predicted_entropy,
      coding_scheme |-> p.info_scheme,
      coding_degree |-> p.info_degree ]

\* What send_tcp_message returns, by the adjust_dt of the cloud's directive;
\* 0 stands for no directive (None, or a reply that is not one).
Responses == {-1, 0, 1}

\* The socket calls of send_tcp_message, in the order it makes them.
SocketCalls == << "connect", "sendall", "recv" >>

\* send_tcp_message that goes back to connect after a failed call.
ProcSendRetries(w) ==
    /\ proc[w].pc = "send"
    /\ sent' = sent \cup {[window |-> w, info |-> Info(proc[w])]}
    /\ \E n \in 1..Len(SocketCalls), response \in Responses :
          /\ n < Len(SocketCalls) => response = 0
          /\ proc' = [proc EXCEPT ![w].io = @ \o SubSeq(SocketCalls, 1, n),
                                  ![w].response = response,
                                  ![w].pc = IF n < Len(SocketCalls) /\ Len(proc[w].io) < 3
                                            THEN "send" ELSE "done"]
    /\ UNCHANGED << procUnchanged, entropy_history, coding_scheme, coding_degree >>

\* response = send_tcp_message(self.cloud_host, self.cloud_port, send_data);
\* the response is logged and the thread ends.  send_tcp_message makes its
\* socket calls up to the first that raises (n of them) and then returns None;
\* it touches nothing but its own socket.
ProcSend(w) ==
    /\ proc[w].pc = "send"
    /\ sent' = sent \cup {[window |-> w, info |-> Info(proc[w])]}
    /\ \E n \in 1..Len(SocketCalls), response \in Responses :
          /\ n < Len(SocketCalls) => response = 0
          /\ proc' = [proc EXCEPT ![w].io = SubSeq(SocketCalls, 1, n),
                                  ![w].response = response,
                                  ![w].pc = "done"]
    /\ UNCHANGED << procUnchanged, entropy_history, coding_scheme, coding_degree >>

FogNext ==
    \/ \E t \in IngestThreads, data \in PacketAlphabet : AcquireLock(t, data)
    \/ \E t \in IngestThreads : IgnoreEmpty(t)
    \/ \E t \in IngestThreads : AppendPacket(t)
    \/ \E t \in IngestThreads : DetachWindow(t)
    \/ \E t \in IngestThreads : ReturnNotFull(t)
    \/ \E w \in DOMAIN proc : ProcAppendHistory(w)
    \/ \E w \in DOMAIN proc : ProcCheckLen(w)
    \/ \E w \in DOMAIN proc : ProcDecideScheme(w)
    \/ \E w \in DOMAIN proc : ProcDecideDegree(w)
    \/ \E w \in DOMAIN proc : ProcEncode(w)
    \/ \E w \in DOMAIN proc : ProcReadScheme(w)
    \/ \E w \in DOMAIN proc : ProcReadDegree(w)
    \/ \E w \in DOMAIN proc : ProcSend(w)


\* ------------------------------------------------------------ fog: claims

\* Positions at which packet id k is held: in the buffer or in a detached window.
Holders(k) ==
    {<<0, i>> : i \in {i \in DOMAIN sliding_window : sliding_window[i].id = k}}
    \cup UNION { {<<w, i>> : i \in {i \in DOMAIN detached[w] : detached[w][i].id = k}}
                 : w \in DOMAIN detached }

\* C1: every window handed to process_sliding_window holds exactly W packets,
\* and they are packets the buffer accepted, in the order it accepted them.
C1_WindowExactAndOrdered ==
    \A w \in DOMAIN proc :
        LET packets == proc[w].packets
        IN  /\ Len(packets) = WindowSize
            /\ \A i \in DOMAIN packets :
                  /\ packets[i].id \in DOMAIN accepted
                  /\ accepted[packets[i].id] = packets[i]
                  /\ i > 1 => packets[i].id = packets[i - 1].id + 1

C1_Witness ==
    /\ Len(proc) = 2
    /\ proc[1].packets[1].data # proc[1].packets[2].data
    /\ \A t \in IngestThreads : ipc[t] = "idle"

\* C2: every accepted packet is in the sliding window or in exactly one
\* detached window, once; and each detached window has exactly one processing
\* thread, started with that window.
C2_NoLossNoDupOneThread ==
    /\ \A k \in DOMAIN accepted : Cardinality(Holders(k)) = 1
    /\ Len(proc) = Len(detached)
    /\ \A w \in DOMAIN detached : proc[w].packets = detached[w]

C2_Witness ==
    /\ Len(detached) = 2
    /\ Len(accepted) = 2 * WindowSize
    /\ sliding_window = << >>

\* C3: entry N of entropy_history is the entropy of the N-th detached window.
C3_HistoryInDetachOrder ==
    \A n \in DOMAIN entropy_history :
        /\ n \in DOMAIN detached
        /\ entropy_history[n] = WindowEntropy(detached[n])

\* C4: the scheme and degree written into a window's ControlMetadata, and the
\* degree passed to perform_network_coding for it, are the pair the Coding
\* Selector yields for the current_entropy of the same metadata.
C4_CodingMatchesOwnEntropy ==
    /\ \A w \in DOMAIN proc :
          proc[w].pc \in {"info1", "info2", "send", "done"}
              => proc[w].dt = DecideDegree(proc[w].current_entropy)
    /\ \A m \in sent :
          /\ m.info.coding_scheme = DecideScheme(m.info.current_entropy)
          /\ m.info.coding_degree = DecideDegree(m.info.current_entropy)

\* C19: the step by which a data_callback call with empty data returns leaves
\* the sliding window, the accepted packets, the detached windows and the
\* processing threads as they were and frees the lock; and a thread that is
\* not inside data_callback never holds the lock.
C19_EmptyIgnored ==
    /\ [](\A t \in IngestThreads : ipc[t] = "idle" => lock # t)
    /\ [][\A t \in IngestThreads :
            (ipc[t] = "locked" /\ idata[t] = << >> /\ ipc'[t] # "locked") =>
                /\ sliding_window' = sliding_window
                /\ accepted' = accepted
                /\ detached' = detached
                /\ proc' = proc
                /\ lock' = "free"
                /\ ipc'[t] = "idle"]_vars

\* An empty packet is being handled while the buffer holds a packet, after
\* the other ingest thread has returned.
C19_Witness ==
    \E t \in IngestThreads :
        /\ ipc[t] = "locked"
        /\ idata[t] = << >>
        /\ Len(sliding_window) = 1
        /\ Len(detached) = 1
        /\ \A u \in IngestThreads \ {t} : ipc[u] = "idle"

\* C20: once a thread has received a directive, the coding degree a later
\* decide_coding_parameters call sets is above the selector's degree for the
\* window's entropy when adjust_dt = +1 and below it when adjust_dt = -1.
C20_DirectiveMovesDegree ==
    [][\A w \in DOMAIN proc :
          (proc[w].pc = "decide2" /\ proc'[w].pc = "encode") =>
              \A v \in DOMAIN proc :
                  proc[v].pc = "done" =>
                      /\ proc[v].response = 1
                            => coding_degree' > DecideDegree(proc[w].current_entropy)
                      /\ proc[v].response = -1
                            => coding_degree' < DecideDegree(proc[w].current_entropy)]_vars

\* C22: whatever the processing threads are doing, the mutex is held only by
\* an ingest thread inside data_callback, a free mutex can be taken by an idle
\* ingest thread, and a thread inside data_callback can always take its next
\* step (ignore, append, detach or return); the detaching step returns, with
\* the mutex free, while the thread it started has not yet run.
C22_ProcessingNeverBlocksIngest ==
    /\ [](/\ lock # "free" => ipc[lock] \in {"locked", "appended"}
          /\ \A t \in IngestThreads :
                /\ (ipc[t] = "idle" /\ lock = "free") => ENABLED AcquireLock(t, << >>)
                /\ ipc[t] = "locked" => ENABLED (IgnoreEmpty(t) \/ AppendPacket(t))
                /\ ipc[t] = "appended" => ENABLED (DetachWindow(t) \/ ReturnNotFull(t)))
    /\ [][\A t \in IngestThreads :
            (ipc[t] = "appended" /\ Len(proc') > Len(proc)) =>
                /\ ipc'[t] = "idle"
                /\ lock' = "free"
                /\ proc'[Len(proc')].pc = "start"]_vars

\* An ingest thread holds the mutex with a packet to append while one
\* processing thread is about to send to the cloud and another is running.
C22_Witness ==
    /\ \E t \in IngestThreads : ipc[t] = "locked" /\ idata[t] # << >>
    /\ \E w \in DOMAIN proc : proc[w].pc = "send"
    /\ \E w \in DOMAIN proc : proc[w].pc = "predict"

\* The threads that have appended to entropy_history and have not yet
\* finished reading it for their forecast.
\* C26: a window's thread makes at most one connect, one sendall and one
\* recv, in that order; when a call fails the thread ends with no response and
\* makes no further call; the step changes neither the window buffer, the
\* lock, the ingest threads nor any other window's thread, and a thread that
\* has ended never moves again.
C26_OneAttemptPerWindow ==
    /\ [](\A w \in DOMAIN proc :
            /\ \E n \in 0..Len(SocketCalls) : proc[w].io = SubSeq(SocketCalls, 1, n)
            /\ proc[w].io # << >> <=> proc[w].pc = "done"
            /\ Len(proc[w].io) < Len(SocketCalls) => proc[w].response = 0)
    /\ [][\A w \in DOMAIN proc :
            /\ proc[w].pc = "done" => proc'[w] = proc[w]
            /\ (proc[w].pc = "send" /\ proc'[w].pc = "done") =>
                  /\ UNCHANGED << sliding_window, lock, ipc, idata, accepted, detached >>
                  /\ \A v \in DOMAIN proc \ {w} : proc'[v] = proc[v]]_vars

\* One window's connect has failed, the next window has gone through all
\* three calls and got a directive, and the buffer holds a packet.
C26_Witness ==
    \E w, v \in DOMAIN proc :
        /\ w < v
        /\ proc[w].pc = "done"
        /\ proc[w].io = << "connect" >>
        /\ proc[v].pc = "done"
        /\ proc[v].io = SocketCalls
        /\ proc[v].response = 1
        /\ Len(sliding_window) = 1

\* C28: whenever the lock is free the buffer holds fewer than WindowSize
\* packets, and with n packets accepted so far the windows detached number
\* n div WindowSize and the buffer holds n mod WindowSize packets.
C28_BufferBelowWindowSize ==
    lock = "free" =>
        /\ Len(sliding_window) < WindowSize
        /\ Len(detached) = Len(accepted) \div WindowSize
        /\ Len(sliding_window) = Len(accepted) % WindowSize

\* Two windows have been detached and one more packet accepted.
C28_Witness ==
    /\ lock = "free"
    /\ Len(accepted) = 2 * WindowSize + 1
    /\ Len(detached) = 2
    /\ Len(sliding_window) = 1

\* C27: the scheme and degree of every ControlMetadata handed to
\* send_tcp_message form one of the selector's three pairs.
C27_NoTornPair ==
    \A m \in sent :
        << m.info.coding_scheme, m.info.coding_degree >>
            \in { <<"Simple", 2>>, <<"Fountain", 4>>, <<"RLNC", 6>> }

InHistorySection ==
    {w \in DOMAIN proc : proc[w].pc \in {"predict", "ar3_1", "ar3_2", "ar3_3"}}

\* C21: entropy_history is appended to only by a step taken while the fog
\* mutex is held by the appending processing thread (not free, not held by an
\* ingest thread), and at most one processing thread at a time is between
\* its append and the end of its read of entropy_history.
C21_HistoryUnderMutex ==
    /\ [](Cardinality(InHistorySection) <= 1)
    /\ [][entropy_history' # entropy_history
            => lock \notin ({"free"} \cup IngestThreads)]_vars

\* The thread has computed its forecast.
Forecast(w) ==
    proc[w].pc \in {"decide", "decide2", "encode", "info1", "info2", "send", "done"}

\* C18: the forecast of the first and of the second window is the AR(1)
\* fallback 0.9 * own entropy + 0.1; the forecast of the third and of every
\* later window is AR(3): 0.5 * own entropy + 0.3 * the previous window's
\* + 0.2 * the one before + 0.1 (forecasts in tenths of a millibit).
C18_ForecastByWindowNumber ==
    \A w \in DOMAIN proc :
        Forecast(w) =>
            LET E(n) == WindowEntropy(detached[n])
            IN  IF w >= 3
                THEN /\ proc[w].ar = 3
                     /\ proc[w].predicted_entropy
                            = 5 * E(w) + 3 * E(w - 1) + 2 * E(w - 2) + 1000
                ELSE /\ proc[w].ar = 1
                     /\ proc[w].predicted_entropy = 9 * E(w) + 1000

\* ------------------------------------------------------------------ cloud

NumConnections == 2     \* connections the cloud accepts in one behaviour

Handlers == 1..NumConnections

\* A frame is a sequence of tokens: the byte "|", other single bytes, and
\* metadata texts (which hold no "|").  "\\xff" is a byte that is not UTF-8.
Meta1 == "{'total_mutual_info': 1, 'total_bandwidth': 4, 'total_latency': 1, 'total_energy': 1, 'successful_transmissions': 2, 'total_transmissions': 2, 'time_steps': 1}"
Meta2 == "{'total_mutual_info': 2, 'total_bandwidth': 4, 'total_latency': 2, 'total_energy': 3, 'successful_transmissions': 2, 'total_transmissions': 2, 'time_steps': 1}"

FrameAlphabet ==
    { << >>,
      <<"A", "B">>,
      <<"A", "|", "|", Meta1>>,
      <<"B", "|", "|", Meta2>>,
      <<"A", "|", "|", "junk">>,
      <<"A", "|", "|", "[1]">>,
      <<"A", "|", "|", "\\xff">>,
      <<"A", "|", "|", "B", "|", "|", Meta1>> }

\* data.split(b"||"): cut at every non-overlapping "||", leftmost first.
RECURSIVE SplitFrom(_, _)
SplitFrom(frame, cur) ==
    IF frame = << >> THEN << cur >>
    ELSE IF Len(frame) >= 2 /\ frame[1] = "|" /\ frame[2] = "|"
         THEN << cur >> \o SplitFrom(SubSeq(frame, 3, Len(frame)), << >>)
         ELSE SplitFrom(Tail(frame), Append(cur, Head(frame)))

Split(frame) == SplitFrom(frame, << >>)

\* parts[1].decode() raises on bytes that are not UTF-8.
Decodable(part) == \A i \in DOMAIN part : part[i] # "\\xff"

MetricKeys == << "total_mutual_info", "total_bandwidth", "total_latency", "total_energy",
                 "successful_transmissions", "total_transmissions", "time_steps" >>

EmptyDict == [kind |-> "dict", d |-> << >>]

\* ast.literal_eval(info_str), and `info = {}` when it raises.
LiteralEval(part) ==
    IF part = << Meta1 >>
    THEN [kind |-> "dict",
          d |-> [total_mutual_info |-> 1, total_bandwidth |-> 4, total_latency |-> 1,
                 total_energy |-> 1, successful_transmissions |-> 2,
                 total_transmissions |-> 2, time_steps |-> 1]]
    ELSE IF part = << Meta2 >>
    THEN [kind |-> "dict",
          d |-> [total_mutual_info |-> 2, total_bandwidth |-> 4, total_latency |-> 2,
                 total_energy |-> 3, successful_transmissions |-> 2,
                 total_transmissions |-> 2, time_steps |-> 1]]
    ELSE IF part = << "[1]" >>
    THEN [kind |-> "list"]
    ELSE EmptyDict

\* rec.get(key, 0)
Get(rec, key) == IF key \in DOMAIN rec.d THEN rec.d[key] ELSE 0

\* sum(rec.get(key, 0) for rec in performance_records)
SumOf(records, key) == SumSeq([i \in DOMAIN records |-> Get(records[i], key)])

\* rec.get raises AttributeError on a record that is not a dict.
AllDicts(records) == \A i \in DOMAIN records : records[i].kind = "dict"

NoSums == [k \in {} |-> 0]

\* The quotient taken without the test of the denominator.
RatioUnguarded(a, b) == [num |-> a, den |-> b]

\* a / b if b > 0 else 0, as the fraction a/b (0/1 for the value 0).
Ratio(a, b) == IF b > 0 THEN [num |-> a, den |-> b] ELSE [num |-> 0, den |-> 1]

\* The metrics dictionary built from the seven sums.
Metrics(sums) ==
    [ bandwidth_utilization_efficiency
          |-> Ratio(sums["total_mutual_info"], sums["total_bandwidth"]),
      average_latency |-> Ratio(sums["total_latency"], sums["total_transmissions"]),
      total_energy |-> sums["total_energy"],
      transmission_reliability
          |-> Ratio(sums["successful_transmissions"], sums["total_transmissions"]),
      throughput |-> Ratio(sums["total_mutual_info"], sums["time_steps"]) ]

NoMetrics == "none"

NotSet == "not set"     \* a local variable of handle_connection before its assignment

CloudInit ==
    /\ performance_records = << >>
    /\ hpc = [h \in Handlers |-> "idle"]
    /\ hdata = [h \in Handlers |-> << >>]
    /\ hencoded = [h \in Handlers |-> NotSet]
    /\ hinfo_str = [h \in Handlers |-> NotSet]
    /\ hinfo = [h \in Handlers |-> EmptyDict]
    /\ hidx = [h \in Handlers |-> 0]
    /\ hstep = [h \in Handlers |-> 0]
    /\ hsums = [h \in Handlers |-> NoSums]
    /\ hmetrics = [h \in Handlers |-> NoMetrics]
    /\ hreply = [h \in Handlers |-> "none"]
    /\ log = << >>
    /\ write_failed = FALSE

\* A handler that answers FormatError and then goes on with an empty record.
HandleReceiveKeepsGoing(h, data) ==
    /\ hpc[h] = "idle"
    /\ hdata' = [hdata EXCEPT ![h] = data]
    /\ LET parts == Split(data)
       IN  IF data = << >>
           THEN /\ hpc' = [hpc EXCEPT ![h] = "done"]
                /\ UNCHANGED << hencoded, hinfo_str, hinfo, hreply >>
           ELSE IF Len(parts) < 2
           THEN /\ hpc' = [hpc EXCEPT ![h] = "append"]
                /\ hreply' = [hreply EXCEPT ![h] = "FormatError"]
                /\ UNCHANGED << hencoded, hinfo_str, hinfo >>
           ELSE IF ~Decodable(parts[2])
           THEN /\ hpc' = [hpc EXCEPT ![h] = "done"]
                /\ hencoded' = [hencoded EXCEPT ![h] = parts[1]]
                /\ UNCHANGED << hinfo_str, hinfo, hreply >>
           ELSE /\ hpc' = [hpc EXCEPT ![h] = "append"]
                /\ hencoded' = [hencoded EXCEPT ![h] = parts[1]]
                /\ hinfo_str' = [hinfo_str EXCEPT ![h] = parts[2]]
                /\ hinfo' = [hinfo EXCEPT ![h] = LiteralEval(parts[2])]
                /\ UNCHANGED hreply
    /\ UNCHANGED << performance_records, hidx, hstep, hsums, hmetrics, log, write_failed, offCloud >>

\* handle_connection: recv, split, decode, literal_eval.
HandleReceive(h, data) ==
    /\ hpc[h] = "idle"
    /\ hdata' = [hdata EXCEPT ![h] = data]
    /\ LET parts == Split(data)
       IN  IF data = << >>
           THEN /\ hpc' = [hpc EXCEPT ![h] = "done"]
                /\ UNCHANGED << hencoded, hinfo_str, hinfo, hreply >>
           ELSE IF Len(parts) < 2
           THEN /\ hpc' = [hpc EXCEPT ![h] = "done"]
                /\ hreply' = [hreply EXCEPT ![h] = "FormatError"]
                /\ UNCHANGED << hencoded, hinfo_str, hinfo >>
           ELSE IF ~Decodable(parts[2])
           THEN /\ hpc' = [hpc EXCEPT ![h] = "done"]
                /\ hencoded' = [hencoded EXCEPT ![h] = parts[1]]
                /\ UNCHANGED << hinfo_str, hinfo, hreply >>
           ELSE /\ hpc' = [hpc EXCEPT ![h] = "append"]
                /\ hencoded' = [hencoded EXCEPT ![h] = parts[1]]
                /\ hinfo_str' = [hinfo_str EXCEPT ![h] = parts[2]]
                /\ hinfo' = [hinfo EXCEPT ![h] = LiteralEval(parts[2])]
                /\ UNCHANGED hreply
    /\ UNCHANGED << performance_records, hidx, hstep, hsums, hmetrics, log, write_failed, offCloud >>

\* with self.lock: performance_records.append(info)
HandleAppend(h) ==
    /\ hpc[h] = "append"
    /\ performance_records' = Append(performance_records, hinfo[h])
    /\ hidx' = [hidx EXCEPT ![h] = Len(performance_records) + 1]
    /\ hstep' = [hstep EXCEPT ![h] = 1]
    /\ hpc' = [hpc EXCEPT ![h] = "compute"]
    /\ UNCHANGED << hparts, hinfo, hsums, hmetrics, hreply, log, write_failed, offCloud >>

\* compute_performance_metrics(), outside the lock: one of its seven sums over
\* performance_records as it is now; after the seventh, the metrics dictionary.
\* A record that is not a dict makes the sum raise: the handler closes the
\* connection without logging or replying.
HandleSum(h) ==
    /\ hpc[h] = "compute"
    /\ IF ~AllDicts(performance_records)
       THEN /\ hpc' = [hpc EXCEPT ![h] = "done"]
            /\ UNCHANGED << hstep, hsums, hmetrics >>
       ELSE LET key == MetricKeys[hstep[h]]
                sums == [k \in DOMAIN hsums[h] \cup {key} |->
                            IF k = key THEN SumOf(performance_records, key)
                            ELSE hsums[h][k]]
            IN  /\ hsums' = [hsums EXCEPT ![h] = sums]
                /\ IF hstep[h] < Len(MetricKeys)
                   THEN /\ hstep' = [hstep EXCEPT ![h] = @ + 1]
                        /\ UNCHANGED << hpc, hmetrics >>
                   ELSE /\ hmetrics' = [hmetrics EXCEPT ![h] = Metrics(sums)]
                        /\ hpc' = [hpc EXCEPT ![h] = "record"]
                        /\ UNCHANGED hstep
    /\ UNCHANGED << performance_records, hparts, hinfo, hidx, hreply, log, write_failed, offCloud >>

\* record_metrics(metrics): one line appended to performance_metrics.log.
RecordMetrics(h) ==
    /\ hpc[h] = "record"
    /\ log' = Append(log, hmetrics[h])
    /\ hpc' = [hpc EXCEPT ![h] = "feedback"]
    /\ UNCHANGED << performance_records, hparts, hinfo, hidx, hstep, hsums, hmetrics, hreply,
                    write_failed, offCloud >>

\* record_metrics(metrics): the write raises; the error is logged and swallowed.
RecordMetricsFails(h) ==
    /\ hpc[h] = "record"
    /\ write_failed' = TRUE
    /\ hpc' = [hpc EXCEPT ![h] = "feedback"]
    /\ UNCHANGED << performance_records, hparts, hinfo, hidx, hstep, hsums, hmetrics, hreply, log, offCloud >>

\* The comparison taken as <= 0.5.
LowEfficiencyInclusive(metrics) ==
    2 * metrics.bandwidth_utilization_efficiency.num
        <= metrics.bandwidth_utilization_efficiency.den

\* metrics.get("bandwidth_utilization_efficiency", 0) < 0.5
LowEfficiency(metrics) ==
    2 * metrics.bandwidth_utilization_efficiency.num
        < metrics.bandwidth_utilization_efficiency.den

Feedback(metrics) ==
    [ adjust_dt |-> IF LowEfficiency(metrics) THEN -1 ELSE 1,
      message |-> IF LowEfficiency(metrics)
                  THEN "Low bandwidth efficiency detected, consider reducing coding degree."
                  ELSE "Bandwidth efficiency is satisfactory, consider increasing coding degree.",
      aggregated_metrics |-> metrics ]

\* The feedback directive is built and sent; the connection is closed.
SendFeedback(h) ==
    /\ hpc[h] = "feedback"
    /\ hreply' = [hreply EXCEPT ![h] = Feedback(hmetrics[h])]
    /\ hpc' = [hpc EXCEPT ![h] = "done"]
    /\ UNCHANGED << performance_records, hparts, hinfo, hidx, hstep, hsums, hmetrics, log,
                    write_failed, offCloud >>

CloudNext ==
    \/ \E h \in Handlers, data \in FrameAlphabet : HandleReceive(h, data)
    \/ \E h \in Handlers : HandleAppend(h)
    \/ \E h \in Handlers : HandleSum(h)
    \/ \E h \in Handlers : RecordMetrics(h)
    \/ \E h \in Handlers : RecordMetricsFails(h)
    \/ \E h \in Handlers : SendFeedback(h)

\* The cloud receiving frames without the separator (with and without lone
\* "|" bytes) next to a well-formed fog frame.
FormatFrames ==
    { <<"A", "B">>,
      <<"A", "|", "B", "|">>,
      <<"A", "|", "|", Meta1>> }

FormatNext ==
    \/ \E h \in Handlers, data \in FormatFrames : HandleReceive(h, data)
    \/ \E h \in Handlers : HandleAppend(h)
    \/ \E h \in Handlers : HandleSum(h)
    \/ \E h \in Handlers : RecordMetrics(h)
    \/ \E h \in Handlers : RecordMetricsFails(h)
    \/ \E h \in Handlers : SendFeedback(h)

\* ---------------------------------------------------------- cloud: claims

\* C5: the aggregate computed by the handler that appended the k-th record is
\* computed over exactly the first k records of performance_records.
C5_AggregateOverOwnPrefix ==
    \A h \in Handlers :
        \A key \in DOMAIN hsums[h] :
            hsums[h][key] = SumOf(SubSeq(performance_records, 1, hidx[h]), key)

\* C6: once every handler has finished and no log write has failed, the log
\* holds one line per record of performance_records.
C6_OneLinePerRecord ==
    ((\A h \in Handlers : hpc[h] = "done") /\ ~write_failed)
        => Len(log) = Len(performance_records)

\* C29: the i-th line of the log is the metrics dictionary of the first i
\* records of performance_records.
C29_LogLineIsPrefixAggregate ==
    \A i \in DOMAIN log :
        /\ i <= Len(performance_records)
        /\ AllDicts(SubSeq(performance_records, 1, i))
        /\ log[i] = Metrics([k \in {MetricKeys[j] : j \in DOMAIN MetricKeys} |->
                                SumOf(SubSeq(performance_records, 1, i), k)])

\* The handler has computed all seven sums and sent its directive.
GotDirective(h) ==
    /\ hpc[h] = "done"
    /\ DOMAIN hsums[h] = {MetricKeys[i] : i \in DOMAIN MetricKeys}

\* C12: a returned directive has adjust_dt = -1 and the low-efficiency message
\* exactly when the attached aggregate's bandwidth_utilization_efficiency is
\* below 1/2, adjust_dt = +1 otherwise (1/2 included), never another value;
\* and the attached aggregate is the one the handler computed.
C12_DirectiveFollowsEfficiency ==
    \A h \in Handlers :
        GotDirective(h) =>
            LET d == hreply[h]
                eff == d.aggregated_metrics.bandwidth_utilization_efficiency
            IN  /\ d.adjust_dt \in {-1, 1}
                /\ d.adjust_dt = -1 <=> 2 * eff.num < eff.den
                /\ d.adjust_dt = 1 <=> 2 * eff.num >= eff.den
                /\ d.adjust_dt = -1 <=>
                      d.message = "Low bandwidth efficiency detected, consider reducing coding degree."
                /\ d.aggregated_metrics = hmetrics[h]

\* A directive for an aggregate efficiency of exactly 1/2.
C12_Witness ==
    \E h \in Handlers :
        /\ GotDirective(h)
        /\ hmetrics[h].bandwidth_utilization_efficiency.num > 0
        /\ 2 * hmetrics[h].bandwidth_utilization_efficiency.num
              = hmetrics[h].bandwidth_utilization_efficiency.den
        /\ hreply[h].adjust_dt = 1

\* The positions at which the two-byte separator starts in a frame.
Separators(frame) ==
    {i \in 1..(Len(frame) - 1) : frame[i] = "|" /\ frame[i + 1] = "|"}

FirstSeparator(frame) ==
    CHOOSE i \in Separators(frame) : \A j \in Separators(frame) : i <= j

\* The handler has split and decoded its frame.
Parsed(h) == hpc[h] = "append" \/ hidx[h] > 0

\* C13: for a frame holding the separator, encoded_data is the bytes before
\* its first occurrence and info_str is all of the bytes after that first
\* occurrence.
C13_SplitAtFirstSeparator ==
    \A h \in Handlers :
        Parsed(h) =>
            LET i == FirstSeparator(hdata[h])
            IN  /\ hencoded[h] = SubSeq(hdata[h], 1, i - 1)
                /\ hinfo_str[h] = SubSeq(hdata[h], i + 2, Len(hdata[h]))

\* A non-empty frame without the separator.
Malformed(frame) == frame # << >> /\ Separators(frame) = {}

\* C14: a handler that receives a non-empty frame without the separator
\* replies FormatError and is finished (connection closed) in the same step,
\* which appends nothing to performance_records or to the log; and it never
\* appends a record afterwards.
C14_FormatErrorLeavesState ==
    /\ [](\A h \in Handlers :
            Malformed(hdata[h]) =>
                /\ hpc[h] = "done"
                /\ hreply[h] = "FormatError"
                /\ hidx[h] = 0)
    /\ [][\A h \in Handlers :
            (hpc[h] = "idle" /\ Malformed(hdata'[h])) =>
                /\ performance_records' = performance_records
                /\ log' = log]_vars

\* A FormatError answered while the aggregator already holds a record and a line.
C14_Witness ==
    \E h \in Handlers :
        /\ Malformed(hdata[h])
        /\ hreply[h] = "FormatError"
        /\ Len(performance_records) = 1
        /\ Len(log) = 1

\* The handler's frame holds the separator and its metadata part (parts[1])
\* is not a Python literal: it is not UTF-8 or literal_eval raises on it.
Unparsable(h) ==
    /\ Separators(hdata[h]) # {}
    /\ LET text == Split(hdata[h])[2]
       IN  \/ ~Decodable(text)
           \/ text \notin { << Meta1 >>, << Meta2 >>, << "[1]" >> }

\* C15: a finished handler whose metadata could not be parsed has appended
\* exactly one record, the empty one, has computed the aggregate and returned
\* a directive, and (unless a log write failed) its aggregate is in the log.
C15_ParseErrorContinues ==
    \A h \in Handlers :
        (hpc[h] = "done" /\ Unparsable(h)) =>
            /\ hidx[h] > 0
            /\ performance_records[hidx[h]] = EmptyDict
            /\ GotDirective(h)
            /\ ~write_failed => \E i \in DOMAIN log : log[i] = hmetrics[h]

\* The handler holds an aggregate returned by compute_performance_metrics().
HasMetrics(h) == hpc[h] \in {"record", "feedback"} \/ GotDirective(h)

\* A record as the fog's Metrics Assembler builds it: every transmission of
\* the window counted as successful, and at least one transmission.
FogRecord(rec) ==
    /\ rec.kind = "dict"
    /\ Get(rec, "total_transmissions") > 0
    /\ Get(rec, "successful_transmissions") = Get(rec, "total_transmissions")

\* C17: when every accumulated record has total_transmissions > 0 (and, as
\* the fog builds them, successful_transmissions equal to it), every aggregate
\* a handler computes has transmission_reliability 1.
C17_ReliabilityIsOne ==
    \A h \in Handlers :
        (HasMetrics(h) /\ \A i \in DOMAIN performance_records :
                              FogRecord(performance_records[i]))
            => hmetrics[h].transmission_reliability.num
                   = hmetrics[h].transmission_reliability.den

\* ------------------------------------ compute_performance_metrics alone

MaxRecords == 3       \* records in performance_records when the aggregate is computed

Dict(d) == [kind |-> "dict", d |-> d]

\* Records as the cloud accumulates them: complete ones, the empty one, and
\* ones that lack keys (so that denominators can sum to zero).
RecordPool ==
    { EmptyDict,
      Dict([total_mutual_info |-> 1, total_bandwidth |-> 4, total_latency |-> 1,
            total_energy |-> 1, successful_transmissions |-> 2,
            total_transmissions |-> 2, time_steps |-> 1]),
      Dict([total_mutual_info |-> 3, total_energy |-> 2]),
      Dict([total_latency |-> 3, successful_transmissions |-> 1, total_transmissions |-> 2]),
      Dict([total_bandwidth |-> 6, time_steps |-> 2]) }

RecordLists == UNION { [1..n -> RecordPool] : n \in 1..MaxRecords }

\* Handler 1 has just appended the last record of a list accumulated by
\* earlier connections and is about to call compute_performance_metrics();
\* no other handler is running.
AggInput ==
    /\ performance_records \in RecordLists
    /\ hpc = [h \in Handlers |-> IF h = 1 THEN "compute" ELSE "done"]
    /\ hdata = [h \in Handlers |-> << >>]
    /\ hencoded = [h \in Handlers |-> NotSet]
    /\ hinfo_str = [h \in Handlers |-> NotSet]
    /\ hinfo = [h \in Handlers |->
                  IF h = 1 THEN performance_records[Len(performance_records)] ELSE EmptyDict]
    /\ hidx = [h \in Handlers |-> IF h = 1 THEN Len(performance_records) ELSE 0]
    /\ hstep = [h \in Handlers |-> IF h = 1 THEN 1 ELSE 0]
    /\ hsums = [h \in Handlers |-> NoSums]
    /\ hmetrics = [h \in Handlers |-> NoMetrics]
    /\ hreply = [h \in Handlers |-> "none"]
    /\ log = << >>
    /\ write_failed = FALSE

ComputePerformanceMetrics == \E h \in Handlers : HandleSum(h)

\* The rest of the handler after the aggregate: log line and directive.
AggregateNext ==
    \/ ComputePerformanceMetrics
    \/ \E h \in Handlers : RecordMetrics(h)
    \/ \E h \in Handlers : RecordMetricsFails(h)
    \/ \E h \in Handlers : SendFeedback(h)

\* The sum of a key over the records, a missing key counting as 0.
RECURSIVE Total(_, _)
Total(records, key) ==
    IF records = << >> THEN 0
    ELSE LET rec == records[Len(records)]
         IN  Total(SubSeq(records, 1, Len(records) - 1), key)
             + (IF key \in DOMAIN rec.d THEN rec.d[key] ELSE 0)

\* a / b, and the value 0 when b is zero.
Quotient(a, b) == IF b = 0 THEN [num |-> 0, den |-> 1] ELSE [num |-> a, den |-> b]

MaxItems == 3         \* items in one call
MaxCap == 5           \* largest capacity1 and capacity2 in one call

\* The (value, weight1, weight2) items a call is made of.
ItemPool ==
    { <<10, 3, 3>>, <<8, 2, 2>>, <<7, 1, 4>>, <<0, 0, 0>>, <<-3, 1, 0>>, <<18, 5, 5>>,
      <<5, 0, 2>>, <<8, 3, 1>>, <<-1, 0, 0>>, <<2, 1, 1>> }

ItemLists == UNION { [1..n -> ItemPool] : n \in 0..MaxItems }

Reverse(s) == [i \in DOMAIN s |-> s[Len(s) + 1 - i]]

\* Row 0 of DP and keep: all 0, all False.
KnapRow0(cap1, cap2) == [c1 \in 0..cap1, c2 \in 0..cap2 |-> [DP |-> 0, keep |-> FALSE]]

\* Row i of DP and keep from row i-1 and items[i-1] (lines 293-303), with the
\* taken value read at the full capacities instead of the reduced ones.
KnapRowNoLookBack(prev, item, cap1, cap2) ==
    [c1 \in 0..cap1, c2 \in 0..cap2 |->
        IF item[2] <= c1 /\ item[3] <= c2
        THEN IF prev[c1, c2].DP + item[1] > prev[c1, c2].DP
             THEN [DP |-> prev[c1, c2].DP + item[1], keep |-> TRUE]
             ELSE [DP |-> prev[c1, c2].DP, keep |-> FALSE]
        ELSE [DP |-> prev[c1, c2].DP, keep |-> FALSE]]

\* Row i of DP and keep with the comparison taken as >=, so that an item is
\* kept on equal objective.
KnapRowTakesTies(prev, item, cap1, cap2) ==
    [c1 \in 0..cap1, c2 \in 0..cap2 |->
        IF item[2] <= c1 /\ item[3] <= c2
        THEN IF prev[c1 - item[2], c2 - item[3]].DP + item[1] >= prev[c1, c2].DP
             THEN [DP |-> prev[c1 - item[2], c2 - item[3]].DP + item[1], keep |-> TRUE]
             ELSE [DP |-> prev[c1, c2].DP, keep |-> FALSE]
        ELSE [DP |-> prev[c1, c2].DP, keep |-> FALSE]]

\* Row i of DP and keep from row i-1 and items[i-1] (lines 293-303).
KnapRow(prev, item, cap1, cap2) ==
    [c1 \in 0..cap1, c2 \in 0..cap2 |->
        IF item[2] <= c1 /\ item[3] <= c2
        THEN IF prev[c1 - item[2], c2 - item[3]].DP + item[1] > prev[c1, c2].DP
             THEN [DP |-> prev[c1 - item[2], c2 - item[3]].DP + item[1], keep |-> TRUE]
             ELSE [DP |-> prev[c1, c2].DP, keep |-> FALSE]
        ELSE [DP |-> prev[c1, c2].DP, keep |-> FALSE]]

\* Rows 0..i of the tables, as a sequence (row i at position i + 1).
RECURSIVE KnapTables(_, _, _, _)
KnapTables(its, i, cap1, cap2) ==
    IF i = 0 THEN << KnapRow0(cap1, cap2) >>
    ELSE LET rows == KnapTables(its, i - 1, cap1, cap2)
         IN  Append(rows, KnapRow(rows[i], its[i], cap1, cap2))

\* The back-walk `for i in range(n, 0, -1)` without `c2 -= e`.
RECURSIVE KnapWalkKeepsC2(_, _, _, _, _)
KnapWalkKeepsC2(tables, its, i, c1, c2) ==
    IF i = 0 THEN << >>
    ELSE IF tables[i + 1][c1, c2].keep
         THEN << i - 1 >> \o KnapWalkKeepsC2(tables, its, i - 1, c1 - its[i][2], c2)
         ELSE KnapWalkKeepsC2(tables, its, i - 1, c1, c2)

\* The back-walk as `for i in range(n, 1, -1)`, which never visits item 0.
RECURSIVE KnapWalkStopsEarly(_, _, _, _, _)
KnapWalkStopsEarly(tables, its, i, c1, c2) ==
    IF i <= 1 THEN << >>
    ELSE IF tables[i + 1][c1, c2].keep
         THEN << i - 1 >> \o KnapWalkStopsEarly(tables, its, i - 1,
                                                c1 - its[i][2], c2 - its[i][3])
         ELSE KnapWalkStopsEarly(tables, its, i - 1, c1, c2)

\* The back-walk `for i in range(n, 0, -1)`: the indices appended, last item first.
RECURSIVE KnapWalk(_, _, _, _, _)
KnapWalk(tables, its, i, c1, c2) ==
    IF i = 0 THEN << >>
    ELSE IF tables[i + 1][c1, c2].keep
         THEN << i - 1 >> \o KnapWalk(tables, its, i - 1, c1 - its[i][2], c2 - its[i][3])
         ELSE KnapWalk(tables, its, i - 1, c1, c2)

\* multi_dim_knapsack(items, capacity1, capacity2)
MultiDimKnapsack(its, cap1, cap2) ==
    LET tables == KnapTables(its, Len(its), cap1, cap2)
    IN  Reverse(KnapWalk(tables, its, Len(its), cap1, cap2))

\* DP[n][capacity1][capacity2]
KnapObjective(its, cap1, cap2) ==
    KnapTables(its, Len(its), cap1, cap2)[Len(its) + 1][cap1, cap2].DP

\* A call of multi_dim_knapsack is about to be made.
KnapInput ==
    /\ items \in ItemLists
    /\ capacity1 \in 0..MaxCap
    /\ capacity2 \in 0..MaxCap
    /\ selected = << >>
    /\ kdone = FALSE

KnapsackReturns ==
    /\ ~kdone
    /\ selected' = MultiDimKnapsack(items, capacity1, capacity2)
    /\ kdone' = TRUE
    /\ UNCHANGED << items, capacity1, capacity2, offKnap >>

\* ------------------------------------------------------- knapsack: claims

\* The 0-based indices of its, and sums over an index set.
Indices(its) == 0..Len(its) - 1

RECURSIVE SumOver(_, _, _)
SumOver(its, S, field) ==
    IF S = {} THEN 0
    ELSE LET x == CHOOSE x \in S : TRUE
         IN  its[x + 1][field] + SumOver(its, S \ {x}, field)

Range(s) == {s[i] : i \in DOMAIN s}

Feasible(its, S, cap1, cap2) ==
    /\ SumOver(its, S, 2) <= cap1
    /\ SumOver(its, S, 3) <= cap2

\* C7: the returned index list is strictly increasing, holds only valid
\* indices, and the selected items' cost sums do not exceed the capacities.
C7_SelectionFeasible ==
    kdone =>
        /\ \A i \in 1..Len(selected) - 1 : selected[i] < selected[i + 1]
        /\ Range(selected) \subseteq Indices(items)
        /\ Feasible(items, Range(selected), capacity1, capacity2)

C7_Witness ==
    /\ kdone
    /\ Len(items) = 3
    /\ Len(selected) = 2
    /\ SumOver(items, Indices(items), 2) > capacity1

\* C8: the value of the returned selection is the maximum value of a subset
\* whose two cost sums fit the capacities, and equals DP[n][C1][C2]; items
\* [(10,3,3),(8,2,2),(7,1,4)] with C1 = C2 = 5 yield [0, 1], of value 18.
C8_SelectionOptimal ==
    kdone =>
        LET value == SumOver(items, Range(selected), 1)
        IN  /\ \A S \in SUBSET Indices(items) :
                  Feasible(items, S, capacity1, capacity2)
                      => SumOver(items, S, 1) <= value
            /\ value = KnapObjective(items, capacity1, capacity2)
            /\ (/\ items = << <<10, 3, 3>>, <<8, 2, 2>>, <<7, 1, 4>> >>
                /\ capacity1 = 5
                /\ capacity2 = 5) => (selected = << 0, 1 >> /\ value = 18)

C8_Witness ==
    /\ kdone
    /\ items = << <<10, 3, 3>>, <<8, 2, 2>>, <<7, 1, 4>> >>
    /\ capacity1 = 5
    /\ capacity2 = 5
    /\ selected = << 0, 1 >>

\* The largest value of a subset of its that fits the capacities (the empty
\* subset, of value 0, always fits).
Best(its, cap1, cap2) ==
    LET fits == {S \in SUBSET Indices(its) : Feasible(its, S, cap1, cap2)}
    IN  CHOOSE v \in {SumOver(its, S, 1) : S \in fits} :
            \A S \in fits : SumOver(its, S, 1) <= v

\* C23: no selected item has a value <= 0; and an item is selected only if,
\* at the capacities left by the selected items after it, it fits and taking
\* it gives a strictly greater objective over the items before it than
\* skipping it.
C23_StrictGainOnly ==
    kdone =>
        \A k \in Range(selected) :
            LET item == items[k + 1]
                later == {j \in Range(selected) : j > k}
                r1 == capacity1 - SumOver(items, later, 2)
                r2 == capacity2 - SumOver(items, later, 3)
                before == SubSeq(items, 1, k)
            IN  /\ item[1] > 0
                /\ item[2] <= r1
                /\ item[3] <= r2
                /\ Best(before, r1 - item[2], r2 - item[3]) + item[1] > Best(before, r1, r2)

\* Two items of equal value of which only one fits, and a free item of value
\* 0: the first is taken, the tie and the zero are skipped.
C23_Witness ==
    /\ kdone
    /\ items = << <<8, 2, 2>>, <<8, 2, 2>>, <<0, 0, 0>> >>
    /\ capacity1 = 2
    /\ capacity2 = 2
    /\ selected = << 0 >>

\* C24: the selection never holds more indices than there are items; and
\* when every item has a value > 0 and all items together fit both
\* capacities, every item is selected.
C24_AllSelectedWhenAllFit ==
    kdone =>
        /\ Len(selected) <= Len(items)
        /\ (/\ \A i \in DOMAIN items : items[i][1] > 0
            /\ Feasible(items, Indices(items), capacity1, capacity2))
               => selected = [i \in DOMAIN items |-> i - 1]

\* Three different items of positive value that fit together.
C24_Witness ==
    /\ kdone
    /\ items = << <<2, 1, 1>>, <<5, 0, 2>>, <<8, 2, 2>> >>
    /\ capacity1 = 3
    /\ capacity2 = 5
    /\ selected = << 0, 1, 2 >>

\* ---------------------------------------------- perform_network_coding

MaxCodeWindow == 7    \* packets in one call

Degrees == {2, 4, 6}

\* The packets a call is made of (byte strings of different lengths).
CodePacketPool == { <<1>>, <<2, 3>>, <<255, 124, 7>> }

CodeWindows == UNION { [1..n -> CodePacketPool] : n \in 1..MaxCodeWindow }

Min(a, b) == IF a < b THEN a ELSE b

Max(a, b) == IF a > b THEN a ELSE b

\* Bitwise operations on two bytes, bit by bit.
RECURSIVE OrBits(_, _, _)
OrBits(a, b, n) ==
    IF n = 0 THEN 0
    ELSE (IF a % 2 = 1 \/ b % 2 = 1 THEN 1 ELSE 0) + 2 * OrBits(a \div 2, b \div 2, n - 1)

RECURSIVE XorBits(_, _, _)
XorBits(a, b, n) ==
    IF n = 0 THEN 0
    ELSE ((a + b) % 2) + 2 * XorBits(a \div 2, b \div 2, n - 1)

\* np.bitwise_or on uint8 arrays of one length.
BitwiseOr(x, y) == [i \in DOMAIN x |-> OrBits(x[i], y[i], 8)]

\* np.bitwise_xor on uint8 arrays of one length.
BitwiseXor(x, y) == [i \in DOMAIN x |-> XorBits(x[i], y[i], 8)]

\* math.ceil(len(packets) / dt)
NumGroups(n, dt) == (n + dt - 1) \div dt

\* packets[i * dt : (i + 1) * dt]
Group(packets, i, dt) == SubSeq(packets, i * dt + 1, Min((i + 1) * dt, Len(packets)))

\* min(len(arr) for arr in arrays)
RECURSIVE MinLength(_)
MinLength(arrays) ==
    IF Len(arrays) = 1 THEN Len(arrays[1])
    ELSE Min(Len(arrays[1]), MinLength(Tail(arrays)))

\* max(len(arr) for arr in arrays)
RECURSIVE MaxLength(_)
MaxLength(arrays) ==
    IF Len(arrays) = 1 THEN Len(arrays[1])
    ELSE Max(Len(arrays[1]), MaxLength(Tail(arrays)))

\* np.zeros(max_length); padded[:len(arr)] = arr
Padded(arr, max_length) ==
    [i \in 1..max_length |-> IF i <= Len(arr) THEN arr[i] ELSE 0]

\* encoded = padded_arrays[0].copy(); for arr in padded_arrays[1:]: encoded ^= arr
RECURSIVE XorFold(_, _)
XorFold(encoded, rest) ==
    IF rest = << >> THEN encoded
    ELSE XorFold(BitwiseXor(encoded, Head(rest)), Tail(rest))

\* The codeword of one group (lines 262-275).
EncodeGroup(group) ==
    LET max_length == MaxLength(group)
        padded_arrays == [j \in DOMAIN group |-> Padded(group[j], max_length)]
    IN  XorFold(padded_arrays[1], Tail(padded_arrays))

RECURSIVE Join(_)
Join(groups) == IF groups = << >> THEN << >> ELSE Head(groups) \o Join(Tail(groups))

\* encoded_groups of perform_network_coding(packets, dt).
EncodedGroups(packets, dt) ==
    IF packets = << >> THEN << >>
    ELSE [i \in 1..NumGroups(Len(packets), dt) |-> EncodeGroup(Group(packets, i - 1, dt))]

\* A call of perform_network_coding is about to be made.
CodeInput ==
    /\ cpackets \in CodeWindows
    /\ cdt \in Degrees
    /\ encoded_groups = << >>
    /\ result = << >>
    /\ cdone = FALSE

CodingReturns ==
    /\ ~cdone
    /\ encoded_groups' = EncodedGroups(cpackets, cdt)
    /\ result' = Join(EncodedGroups(cpackets, cdt))
    /\ cdone' = TRUE
    /\ UNCHANGED << cpackets, cdt, offCode >>

\* --------------------------------------------------------- coder: claims

\* The 1-based positions in the window of the packets of group g (0-based):
\* the g-th run of cdt consecutive packets.
Members(g) == {j \in DOMAIN cpackets : (j - 1) \div cdt = g}

\* ceil(W / d), on the integers.
CeilDiv(a, b) == IF a % b = 0 THEN a \div b ELSE a \div b + 1

GroupMax(g) ==
    CHOOSE m \in {Len(cpackets[j]) : j \in Members(g)} :
        \A j \in Members(g) : Len(cpackets[j]) <= m

RECURSIVE SumGroupMax(_)
SumGroupMax(g) == IF g < 0 THEN 0 ELSE GroupMax(g) + SumGroupMax(g - 1)

\* C9: the window is split into ceil(W/d) contiguous groups of up to d packets
\* and the returned byte string is as long as the groups' maximum packet
\* lengths added up.
C9_EncodedLength ==
    cdone =>
        LET n == CeilDiv(Len(cpackets), cdt)
        IN  /\ Len(encoded_groups) = n
            /\ \A g \in 0..n - 1 :
                  /\ Members(g) # {}
                  /\ Cardinality(Members(g)) <= cdt
                  /\ Len(encoded_groups[g + 1]) = GroupMax(g)
            /\ UNION {Members(g) : g \in 0..n - 1} = DOMAIN cpackets
            /\ Len(result) = SumGroupMax(n - 1)

C9_Witness ==
    /\ cdone
    /\ cdt = 4
    /\ Len(cpackets) = 6
    /\ Len(encoded_groups) = 2
    /\ Len(cpackets[1]) < Len(cpackets[2])
    /\ Len(result) = 5

\* The XOR of a set of equally long byte strings, taken in any order.
RECURSIVE XorAll(_, _)
XorAll(acc, S) ==
    IF S = {} THEN acc
    ELSE LET j == CHOOSE j \in S : TRUE
             p == Padded(cpackets[j], Len(acc))
         IN  XorAll([i \in DOMAIN acc |-> XorBits(acc[i], p[i], 8)], S \ {j})

\* The codeword of group g as it lies in the returned byte string.
Codeword(g) ==
    SubSeq(result, SumGroupMax(g - 1) + 1, SumGroupMax(g))

\* C10: XOR-ing a group's codeword with all but one of the group's packets,
\* each zero-padded to the group's maximum length, yields the remaining packet
\* zero-padded to that length; a single-packet group's codeword is the packet.
C10_Reconstruct ==
    cdone =>
        \A g \in 0..Len(encoded_groups) - 1 :
            /\ \A j \in Members(g) :
                  XorAll(Codeword(g), Members(g) \ {j}) = Padded(cpackets[j], GroupMax(g))
            /\ Cardinality(Members(g)) = 1
                  => \A j \in Members(g) : Codeword(g) = cpackets[j]

C10_Witness ==
    /\ cdone
    /\ cdt = 2
    /\ Len(cpackets) = 3
    /\ cpackets[1] = <<255, 124, 7>>
    /\ cpackets[2] = <<2, 3>>
    /\ result = <<253, 127, 7>> \o cpackets[3]

\* ---------------------------------------------------------- specifications

KnapIdle ==
    /\ items = << >>
    /\ capacity1 = 0
    /\ capacity2 = 0
    /\ selected = << >>
    /\ kdone = FALSE

CodeIdle ==
    /\ cpackets = << >>
    /\ cdt = 2
    /\ encoded_groups = << >>
    /\ result = << >>
    /\ cdone = FALSE

Init == FogInit /\ CloudInit /\ KnapIdle /\ CodeIdle /\ SelIdle /\ ClientInit

Next == FogNext

Spec == Init /\ [][Next]_vars

SpecCloud == Init /\ [][CloudNext]_vars

\* Three windows have filled in succession and their processing threads have
\* been started; none has run yet.
HistoryWindowIds == 1..3

Tagged(datas) == [i \in DOMAIN datas |-> [id |-> i, data |-> datas[i]]]

HistInit ==
    /\ \E datas \in [1..Cardinality(HistoryWindowIds) * WindowSize -> PacketAlphabet \ {<< >>}] :
          /\ accepted = Tagged(datas)
          /\ detached = [w \in HistoryWindowIds |->
                            SubSeq(Tagged(datas), (w - 1) * WindowSize + 1, w * WindowSize)]
          /\ \A w \in HistoryWindowIds :
                \A i \in 2..WindowSize : datas[(w - 1) * WindowSize + i]
                                            = datas[(w - 1) * WindowSize + 1]
    /\ proc = [w \in HistoryWindowIds |-> NewProc(detached[w])]
    /\ sliding_window = << >>
    /\ lock = "free"
    /\ ipc = [t \in IngestThreads |-> "idle"]
    /\ idata = [t \in IngestThreads |-> << >>]
    /\ entropy_history = << >>
    /\ coding_scheme = "None"
    /\ coding_degree = 0
    /\ sent = {}

\* The threads up to their forecast (lines 144-162); the steps that follow
\* touch neither entropy_history nor predicted_entropy and are those of Spec.
HistNext ==
    \/ \E w \in DOMAIN proc : ProcAppendHistory(w)
    \/ \E w \in DOMAIN proc : ProcCheckLen(w)
    \/ \E w \in DOMAIN proc : ProcReadH1(w)
    \/ \E w \in DOMAIN proc : ProcReadH2(w)
    \/ \E w \in DOMAIN proc : ProcReadH3(w)

HistoryInit == HistInit /\ CloudInit /\ KnapIdle /\ CodeIdle /\ SelIdle /\ ClientInit

SpecHistory == HistoryInit /\ [][HistNext]_vars

KnapsackInit == FogInit /\ CloudInit /\ KnapInput /\ CodeIdle /\ SelIdle /\ ClientInit

SpecKnapsack == KnapsackInit /\ [][KnapsackReturns]_vars

CodingInit == FogInit /\ CloudInit /\ KnapIdle /\ CodeInput /\ SelIdle /\ ClientInit

SpecCoding == CodingInit /\ [][CodingReturns]_vars

SpecFormatError == Init /\ [][FormatNext]_vars

AggregateInit == FogInit /\ AggInput /\ KnapIdle /\ CodeIdle /\ SelIdle /\ ClientInit

SpecAggregate == AggregateInit /\ [][AggregateNext]_vars

SelectorInit == SelInput /\ CloudInit /\ KnapIdle /\ CodeIdle /\ ClientInit

SpecClient == Init /\ [][HandleClient]_vars

SpecSelector == SelectorInit /\ [][DecideCodingParameters]_vars

====
